---------------------------- MODULE Spec2Model ----------------------------
(***************************************************************************)
(* A model of nasToFoam (src/nasToFoam.C): the column tokenizer, the card  *)
(* reader, the comment/name tracker, the card dispatcher of main() and the *)
(* group resolver that follows it.                                         *)
(*                                                                         *)
(* A byte is a one-character string; a C string is a sequence of bytes.    *)
(* The input file is a sequence of bytes, the stream `is` is a cursor in   *)
(* it (pos), the OpenFOAM line counter (line), the stream state (good) and *)
(* the one-byte put-back slot of the stream buffer (pb).                   *)
(***************************************************************************)
EXTENDS Integers, Sequences, FiniteSets, TLC

VARIABLES
    file,           \* the bytes of the .dat file (never changes)
    format,         \* FORMAT: 0 free, 8 small, 16 large
    defaultNames,   \* the -defaultNames option
    is,             \* IFstream inFile: [pos, line, good, pb]
    entryBuff,      \* last extracted entry keyword
    commentBuffer,  \* last word of the last comment with a space
    commentLine,    \* line number stored with commentBuffer
    points,         \* DynamicList<point>
    pointIDs,       \* DynamicList<label>: nastran ID -> index, -1 unset
    cells,          \* DynamicList<cellShape>
    cellPropIDs,    \* Map<DynamicList<label>>
    patches,        \* Map<DynamicList<face>>
    propNames,      \* Map<word>
    patchFaces,     \* DynamicList<faceList>
    patchNames,     \* wordList
    unnamedPatchN,  \* counter of synthesized patch names
    cZones,         \* List<cellZone*>: records [name, cells, index]
    unnamedCellZoneN,
    loopI,          \* the index i of the forAll loop being run
    mesh,           \* what polyMesh was constructed from / holds
    run,            \* keyword of the readPoints/readCell/readFaces run
    pc,             \* position of main()
    err,            \* kind of the fatal error that ended the run
    hist,           \* history: the records dispatched and groups emitted
    entryAt,        \* history: where in the file entryBuff was read
    input,          \* history: the cards the file was written from
    call,           \* history: the last call of the tokenizer on its own
    got             \* history: the fields read from the record at hand

vars == <<file, format, defaultNames, is, entryBuff, commentBuffer,
          commentLine, points, pointIDs, cells, cellPropIDs, patches,
          propNames, patchFaces, patchNames, unnamedPatchN, cZones,
          unnamedCellZoneN, loopI, mesh, run, pc, err, hist, entryAt, input,
          call, got>>

(***************************************************************************)
(* Bytes.                                                                  *)
(***************************************************************************)
LF == "\n"
CR == "\r"
SP == " "
TAB == "\t"
NUL == "NUL"
NoChar == "none"

\* FORMAT, src/nasToFoam.C:32-37
FREE == 0
SMALL == 8
LARGE == 16

\* char buff[63]
BuffSize == 63

\* width of the entry (keyword) column and of the continuation flag column
EntryWidth == 8

isspace(c) == c \in {SP, TAB, LF, CR}

Digits == <<"0", "1", "2", "3", "4", "5", "6", "7", "8", "9">>

IsDigit(c) == \E d \in 1..10 : Digits[d] = c

DigitVal(c) == (CHOOSE d \in 1..10 : Digits[d] = c) - 1

Min(a, b) == IF a < b THEN a ELSE b

\* string(buff): the bytes before the first NUL
CStr(b) ==
    IF \E k \in 1..Len(b) : b[k] = NUL
    THEN SubSeq(b, 1, (CHOOSE k \in 1..Len(b) :
                          b[k] = NUL /\ \A j \in 1..(k - 1) : b[j] # NUL) - 1)
    ELSE b

\* the byte an uninitialised char buff[63] holds at index i (0-based)
StaleAt(stale, i) == IF i + 1 <= Len(stale) THEN stale[i + 1] ELSE NUL

(***************************************************************************)
(* The stream (OpenFOAM ISstream over a std::istream).                     *)
(***************************************************************************)

\* ISstream::get(char&): on failure the byte is left as it was (old)
get(s, old) ==
    IF s.pb # NoChar
    THEN [s |-> [s EXCEPT !.pb = NoChar,
                          !.line = IF s.pb = LF THEN @ + 1 ELSE @],
          c |-> s.pb, ok |-> TRUE]
    ELSE IF s.good /\ s.pos <= Len(file)
    THEN [s |-> [s EXCEPT !.pos = @ + 1,
                          !.line = IF file[s.pos] = LF THEN @ + 1 ELSE @],
          c |-> file[s.pos], ok |-> TRUE]
    ELSE [s |-> [s EXCEPT !.good = FALSE], c |-> old, ok |-> FALSE]

\* ISstream::peek(): the next byte, "EOF" at the end; the state is not synced
peek(s) ==
    IF s.pb # NoChar THEN s.pb
    ELSE IF s.good /\ s.pos <= Len(file) THEN file[s.pos]
    ELSE "EOF"

\* a putback that pushes nothing back
putback_dropped(s, c) == s

\* ISstream::putback(c): the line counter goes back for a newline; the byte is
\* un-read when it is the byte before the cursor, else it is held in the
\* put-back slot of the buffer
putback(s, c) ==
    LET ln == IF c = LF THEN s.line - 1 ELSE s.line
    IN  IF ~s.good THEN [s EXCEPT !.line = ln]
        ELSE IF s.pb = NoChar /\ s.pos > 1 /\ file[s.pos - 1] = c
        THEN [s EXCEPT !.line = ln, !.pos = @ - 1]
        ELSE IF s.pb = NoChar THEN [s EXCEPT !.line = ln, !.pb = c]
        ELSE [s EXCEPT !.line = ln, !.good = FALSE]

\* least element of a set of positions, 0 when it is empty
First(c) == IF c = {} THEN 0 ELSE CHOOSE k \in c : \A j \in c : k <= j

\* greatest element of a set of positions, 0 when it is empty
Last(c) == IF c = {} THEN 0 ELSE CHOOSE k \in c : \A j \in c : j <= k

\* index of the first newline at or after p, 0 when there is none
NextLF(p) == First({k \in p..Len(file) : file[k] = LF})

\* the line that ends at the newline at k (k = 0: at the end of the file,
\* where the stream state becomes eof)
lineUpTo(s, k) ==
    IF k = 0
    THEN [s |-> [s EXCEPT !.pos = Len(file) + 1, !.good = FALSE,
                          !.line = @ + 1],
          str |-> SubSeq(file, s.pos, Len(file))]
    ELSE [s |-> [s EXCEPT !.pos = k + 1, !.line = @ + 1],
          str |-> SubSeq(file, s.pos, k - 1)]

\* ISstream::getLine(line): the bytes up to the next newline, which is consumed
getLine(s) ==
    IF s.pb = LF
    THEN [s |-> [s EXCEPT !.pb = NoChar, !.line = @ + 1], str |-> <<>>]
    ELSE IF ~s.good \/ s.pos > Len(file)
    THEN [s |-> [s EXCEPT !.good = FALSE], str |-> <<>>]
    ELSE lineUpTo(s, NextLF(s.pos))

\* ISstream::readRaw(buff, n): n raw bytes, the line counter is not touched
RECURSIVE readRaw(_, _)
readRaw(s, n) ==
    IF n = 0 THEN s
    ELSE IF s.pb # NoChar THEN readRaw([s EXCEPT !.pb = NoChar], n - 1)
    ELSE IF s.good /\ s.pos + n - 1 <= Len(file) THEN [s EXCEPT !.pos = @ + n]
    ELSE [s EXCEPT !.pos = IF s.good THEN Len(file) + 1 ELSE @,
                   !.good = FALSE]


(***************************************************************************)
(* Column tokenizer.                                                       *)
(***************************************************************************)

\* The scan loop of getColumn, lines 113-136.  acc is buff[0..i-1], slot is
\* the byte now held in buff[i] (a failed get leaves it), stale the bytes the
\* uninitialised buffer held on entry; g is the result of is.get(buff[i]).
RECURSIVE scanColumn(_, _, _, _, _, _)
RECURSIVE scanByte(_, _, _, _, _)
RECURSIVE scanNext(_, _, _, _, _, _)

\* The passes of the loop once get() has failed: every later get() fails too
\* and leaves buff[i] as it is, so pass j (from 0) sees the byte slotAt(.., j).
slotAt(stale, acc, slot, j) ==
    IF j = 0 THEN slot ELSE StaleAt(stale, Len(acc) + j)

\* the passes that do not just store the byte and go on
eofStops(stale, acc, slot, room) ==
    {j \in 0..(room - 1) :
        slotAt(stale, acc, slot, j) = "," \/ isspace(slotAt(stale, acc, slot, j))}

\* buff[0..i-1] with the bytes of passes 0..n-1 stored
eofStored(stale, acc, slot, n) ==
    acc \o [j \in 1..n |-> slotAt(stale, acc, slot, j - 1)]

\* stops the passes that stop or spin, room how many passes nRead and i allow:
\* a newline is stored and ends the loop, a comma ends it, a space is read
\* again and again until nRead runs out
eofScanned(stale, acc, slot, room, stops) ==
    IF stops = {} THEN eofStored(stale, acc, slot, room)
    ELSE IF slotAt(stale, acc, slot, First(stops)) = LF
    THEN eofStored(stale, acc, slot, First(stops) + 1)
    ELSE eofStored(stale, acc, slot, First(stops))

eofScan(stale, acc, slot, room) ==
    eofScanned(stale, acc, slot, room, eofStops(stale, acc, slot, room))

scanByte(g, size, stale, acc, nRead) ==
    IF ~g.ok
    THEN [s |-> g.s,
          acc |-> eofScan(stale, acc, g.c,
                          Min(size - nRead, size - Len(acc)))]
    ELSE IF g.c = LF THEN [s |-> g.s, acc |-> Append(acc, g.c)]
    ELSE IF g.c = "," THEN [s |-> g.s, acc |-> acc]
    ELSE IF isspace(g.c)
    THEN scanColumn(g.s, size, stale, acc, g.c, nRead + 1)
    ELSE scanColumn(g.s, size, stale, Append(acc, g.c),
                    StaleAt(stale, Len(acc) + 1), nRead + 1)

\* the bytes of str the loop stores: spaces and carriage returns are not
nonSpace(str) == SelectSeq(str, LAMBDA c : ~isspace(c))

\* buff[i] after the pass that read the byte c into it with buff[0..i-1] = acc
slotAfter(stale, acc, c) == IF isspace(c) THEN c ELSE StaleAt(stale, Len(acc))

\* the passes over the bytes s.pos..last, none of them a newline or a comma
scanNext(s, size, stale, acc, nRead, last) ==
    scanColumn([s EXCEPT !.pos = last + 1], size, stale, acc,
               slotAfter(stale, acc, file[last]), nRead + (last + 1 - s.pos))

\* the passes over the bytes s.pos..last of the file, which get() reads one
\* by one; stops are the newlines and commas among them: the first ends the
\* loop, a newline is stored and counted as a line
scanBytes(s, size, stale, acc, nRead, last, stops) ==
    IF stops = {}
    THEN scanNext(s, size, stale, acc \o nonSpace(SubSeq(file, s.pos, last)),
                  nRead, last)
    ELSE IF file[First(stops)] = LF
    THEN [s |-> [s EXCEPT !.pos = First(stops) + 1, !.line = @ + 1],
          acc |-> acc \o nonSpace(SubSeq(file, s.pos, First(stops) - 1))
                     \o <<LF>>]
    ELSE [s |-> [s EXCEPT !.pos = First(stops) + 1],
          acc |-> acc \o nonSpace(SubSeq(file, s.pos, First(stops) - 1))]

scanTo(s, size, stale, acc, nRead, last) ==
    scanBytes(s, size, stale, acc, nRead, last,
              {k \in s.pos..last : file[k] \in {LF, ","}})

\* while (nRead++ < size && i < size): at most size - nRead bytes are read
scanColumn(s, size, stale, acc, slot, nRead) ==
    IF ~(nRead < size /\ Len(acc) < size) THEN [s |-> s, acc |-> acc]
    ELSE IF s.pb # NoChar \/ ~s.good \/ s.pos > Len(file)
    THEN scanByte(get(s, slot), size, stale, acc, nRead)
    ELSE scanTo(s, size, stale, acc, nRead,
                Min(s.pos + (size - nRead) - 1, Len(file)))

\* while (is.get(c) && c != ',') {} : the stream converts to true unless it
\* is bad, so the loop ends only by reading a comma
RECURSIVE skipFlagFree(_)
RECURSIVE skipFlagByte(_)
skipFlagByte(g) ==
    IF ~g.ok THEN [s |-> g.s, hang |-> TRUE]
    ELSE IF g.c = "," THEN [s |-> g.s, hang |-> FALSE]
    ELSE skipFlagFree(g.s)

skipFlagFree(s) == skipFlagByte(get(s, NoChar))

\* the result of a call with the out-of-range flag of the calls before it
withOob(col, over) == [col EXCEPT !.oob = @ \/ over]

\* lines 140-142: the field read is a continuation marker
isContinuation(r) ==
    /\ Len(r.acc) >= 1
    /\ r.acc[1] = "+"
    /\ r.acc[Len(r.acc)] = LF
    /\ peek(r.s) \in {"+", "*"}

\* getColumn(is, size), lines 104-169.  ub is what the build leaves undefined:
\* ub.stale, the bytes of the uninitialised buffer, and ub.under, whether the
\* byte before the buffer (buff[-1], read when i = 0) is a newline.
\* Result: the stream, the string, whether the call never returns (hang) and
\* whether an index outside 0..62 was used (oob).
RECURSIVE getColumn(_, _, _)
RECURSIVE columnAfterFlag(_, _, _, _)
RECURSIVE columnOf(_, _, _)

\* lines 145-156 in free format, k the result of skipping the flag field
columnAfterFlag(k, size, ub, over) ==
    IF k.hang THEN [s |-> k.s, str |-> <<>>, hang |-> TRUE, oob |-> over]
    ELSE withOob(getColumn(k.s, size, ub), over)

\* lines 137-168, r the result of the scan loop
columnOf(r, size, ub) ==
    IF isContinuation(r)
    THEN IF format = FREE
         THEN columnAfterFlag(skipFlagFree(r.s), size, ub,
                              Len(r.acc) > BuffSize - 1)
         ELSE withOob(getColumn(readRaw(r.s, EntryWidth), size, ub),
                      Len(r.acc) > BuffSize - 1)
    ELSE IF format = FREE /\ Len(r.acc) = 0
    THEN [s |-> IF ub.under THEN putback(r.s, LF) ELSE r.s,
          str |-> <<>>, hang |-> FALSE, oob |-> TRUE]
    ELSE IF format = FREE /\ r.acc[Len(r.acc)] = LF
    THEN [s |-> putback(r.s, LF),
          str |-> CStr(SubSeq(r.acc, 1, Len(r.acc) - 1)),
          hang |-> FALSE, oob |-> Len(r.acc) > BuffSize - 1]
    ELSE [s |-> r.s, str |-> CStr(r.acc), hang |-> FALSE,
          oob |-> Len(r.acc) > BuffSize - 1]

\* lines 106-109: size 0 (free format) becomes 63
columnSize(size0) == IF size0 = 0 THEN BuffSize ELSE size0

getColumn(s, size0, ub) ==
    columnOf(scanColumn(s, columnSize(size0), ub.stale, <<>>,
                        StaleAt(ub.stale, 0), 0),
             columnSize(size0), ub)

(***************************************************************************)
(* Comment/name tracker and the entry cursor.                              *)
(***************************************************************************)

RemoveCR(str) == SelectSeq(str, LAMBDA c : c # CR)

ends_with(str, c) == str # <<>> /\ str[Len(str)] = c

\* finishEntry(is), lines 86-101; g is the line just read
RECURSIVE finishEntry(_)
RECURSIVE finishLine(_)
finishLine(g) ==
    IF ends_with(RemoveCR(g.str), "+") THEN finishEntry(g.s) ELSE g.s

finishEntry(s) == finishLine(getLine(s))

\* line.find_last_of(' '): 1-based index of the last space, 0 for npos
LastSpace(line) == Last({k \in 1..Len(line) : line[k] = SP})

\* lines 73-78, g the line read and lastSpace the index found in it
recordComment(st, g, lastSpace) ==
    IF lastSpace # 0
    THEN [s |-> g.s,
          cb |-> SubSeq(g.str, lastSpace + 1, Len(g.str)),
          cl |-> g.s.line]
    ELSE [st EXCEPT !.s = g.s]

commentOf(st, g) == recordComment(st, g, LastSpace(g.str))

\* processCommentedLine(is), lines 68-79; st is [s, cb, cl]: the stream,
\* commentBuffer and commentLine
processCommentedLine(st) == commentOf(st, getLine(st.s))

\* while (is.good() && is.peek() == '$') processCommentedLine(is);
RECURSIVE skipComments(_)
skipComments(st) ==
    IF st.s.good /\ peek(st.s) = "$"
    THEN skipComments(processCommentedLine(st))
    ELSE st

\* entryBuff.removeEnd('*')
removeEndStar(str) ==
    IF ends_with(str, "*") THEN SubSeq(str, 1, Len(str) - 1) ELSE str

\* lines 189-192, c the cursor after the comments, col the column read
entryOf(c, col) ==
    [s |-> col.s, cb |-> c.cb, cl |-> c.cl, entry |-> removeEndStar(col.str),
     hang |-> col.hang, oob |-> col.oob, at |-> c.s.pos]

\* lines 178-187
entryColumn(c, ub) ==
    entryOf(c, getColumn(c.s, IF format = FREE THEN 0 ELSE EntryWidth, ub))

\* getEntry(is), lines 171-193
getEntry(st, ub) ==
    entryColumn(skipComments([st EXCEPT !.s = finishEntry(st.s)]), ub)

(***************************************************************************)
(* Typed reads.                                                            *)
(***************************************************************************)

\* number of leading decimal digits of str
RECURSIVE NumDigits(_)
NumDigits(str) ==
    IF str # <<>> /\ IsDigit(Head(str)) THEN 1 + NumDigits(Tail(str)) ELSE 0

\* value of a sequence of decimal digits
RECURSIVE DecVal(_)
DecVal(str) ==
    IF str = <<>> THEN 0
    ELSE 10 * DecVal(SubSeq(str, 1, Len(str) - 1)) + DigitVal(str[Len(str)])

AllSpace(str) == \A k \in 1..Len(str) : isspace(str[k])

HasSign(str) == str # <<>> /\ Head(str) \in {"+", "-"}

IsNegative(str) == str # <<>> /\ Head(str) = "-"

Unsigned(str) == IF HasSign(str) THEN Tail(str) ELSE str

Signed(neg, v) == IF neg THEN 0 - v ELSE v

Drop(str, n) == SubSeq(str, n + 1, Len(str))

LeadingDigits(str) == SubSeq(str, 1, NumDigits(str))

AfterDigits(str) == Drop(str, NumDigits(str))

\* readLabel(string): strtoimax, then only trailing white space may follow
readLabel(str) ==
    [ok |-> NumDigits(Unsigned(str)) > 0 /\ AllSpace(AfterDigits(Unsigned(str))),
     val |-> Signed(IsNegative(str), DecVal(LeadingDigits(Unsigned(str))))]

\* m * 10^e without trailing zeros in m
RECURSIVE Normal(_, _)
Normal(m, e) ==
    IF m = 0 THEN [m |-> 0, e |-> 0]
    ELSE IF m % 10 = 0 THEN Normal(m \div 10, e + 1)
    ELSE [m |-> m, e |-> e]

\* the number read: sign, integer digits ip, fraction digits fp, exponent
\* ex, and what follows the number
floatValue(neg, ip, fp, ex, rest) ==
    [ok |-> Len(ip) + Len(fp) > 0 /\ AllSpace(rest),
     val |-> Normal(Signed(neg, DecVal(ip \o fp)), ex - Len(fp))]

\* an exponent is read only when digits follow the e and its sign
floatExponent(neg, ip, fp, r) ==
    IF r # <<>> /\ Head(r) \in {"e", "E"}
       /\ NumDigits(Unsigned(Tail(r))) > 0
    THEN floatValue(neg, ip, fp,
                    Signed(IsNegative(Tail(r)),
                           DecVal(LeadingDigits(Unsigned(Tail(r))))),
                    AfterDigits(Unsigned(Tail(r))))
    ELSE floatValue(neg, ip, fp, 0, r)

floatFraction(neg, ip, r) ==
    IF r # <<>> /\ Head(r) = "."
    THEN floatExponent(neg, ip, LeadingDigits(Tail(r)), AfterDigits(Tail(r)))
    ELSE floatExponent(neg, ip, <<>>, r)

\* readFloat(string): strtod on a decimal number, then only trailing white
\* space may follow; the value is m * 10^e
readFloat(str) ==
    floatFraction(IsNegative(str), LeadingDigits(Unsigned(str)),
                  AfterDigits(Unsigned(str)))

\* a typed read: the column and the number parsed from it
typed(col, n) ==
    [s |-> col.s, ok |-> n.ok, val |-> n.val, hang |-> col.hang,
     oob |-> col.oob]

labelOf(col) == typed(col, readLabel(col.str))

\* getLabel(is), lines 196-199
getLabel(s, ub) == labelOf(getColumn(s, format, ub))

\* data.find(ch, 1): 0-based index of the first ch at offset >= 1, else -1
Find1(data, ch) == First({k \in 2..Len(data) : data[k] = ch}) - 1

\* lines 210-213
insertE(data, id) ==
    IF id # -1 /\ data[id] # "e" /\ data[id] # "E"
    THEN SubSeq(data, 1, id) \o <<"e">> \o Drop(data, id)
    ELSE data

\* the repair at the first sign of either kind
repairExponent_firstSign(data) ==
    insertE(data, First({k \in 2..Len(data) : data[k] \in {"+", "-"}}) - 1)

\* the exponent repair of getScalar, lines 208-213
repairExponent(data) ==
    insertE(data, IF Find1(data, "+") = -1 THEN Find1(data, "-")
                  ELSE Find1(data, "+"))

scalarOf(col) == typed(col, readFloat(repairExponent(col.str)))

\* getScalar(is), lines 204-216
getScalar(s, ub) == scalarOf(getColumn(s, format, ub))

(***************************************************************************)
(* Containers.                                                             *)
(*                                                                         *)
(* A Map<T> (HashTable<T, label>) is the sequence of its [key, val]        *)
(* entries in insertion order.  Its iteration order, which toc() returns,  *)
(* is by bucket (Hash<label> is the key itself, the bucket the hash modulo *)
(* the table capacity), and within a bucket the entry inserted last comes  *)
(* first.  The table doubles only above 0.8 * capacity entries, which the  *)
(* inputs here never reach.                                                *)
(***************************************************************************)

\* capacity of a default-constructed HashTable
HashCapacity == 128

found(m, k) == \E j \in 1..Len(m) : m[j].key = k

\* m.at(k) / m[k] for a key that is there
at(m, k) == m[CHOOSE j \in 1..Len(m) : m[j].key = k].val

insert(m, k, v) == IF found(m, k) THEN m ELSE Append(m, [key |-> k, val |-> v])

\* m.at(k) = v for a key that is there
assign(m, k, v) == [j \in 1..Len(m) |-> IF m[j].key = k THEN [m[j] EXCEPT !.val = v] ELSE m[j]]

bucket(k) == k % HashCapacity

\* entry j is visited before entry l
Before(m, j, l) ==
    \/ bucket(m[j].key) < bucket(m[l].key)
    \/ bucket(m[j].key) = bucket(m[l].key) /\ j > l

\* m.toc(): the keys in iteration order
toc(m) ==
    [n \in 1..Len(m) |->
        m[CHOOSE j \in 1..Len(m) :
              Cardinality({l \in 1..Len(m) : Before(m, l, j)}) = n - 1].key]

\* a mapping made after the point is appended: the position is one too high
setPointID_afterAppend(pids, pointi, n) ==
    LET grown == IF pointi >= Len(pids)
                 THEN pids \o [j \in 1..(pointi + 1 - Len(pids)) |-> -1]
                 ELSE pids
    IN  [grown EXCEPT ![pointi + 1] = n + 1]

\* pointIDs.resize(pointi + 1, -1) when needed, then pointIDs[pointi] = n;
\* lines 234-238.  pointIDs[k + 1] here is pointIDs[k] there.
setPointID(pids, pointi, n) ==
    LET grown == IF pointi >= Len(pids)
                 THEN pids \o [j \in 1..(pointi + 1 - Len(pids)) |-> -1]
                 ELSE pids
    IN  [grown EXCEPT ![pointi + 1] = n]

\* pointIDs[k], an unchecked read (lines 280, 310): outside the list the
\* build decides, the read faults (ub.segv) or yields some label (ub.wild)
lookupPoint(pids, k, ub) ==
    IF 0 <= k /\ k < Len(pids) THEN [ok |-> TRUE, val |-> pids[k + 1]]
    ELSE [ok |-> ~ub.segv, val |-> ub.wild]

\* std::to_string(n), n >= 0
RECURSIVE to_string(_)
to_string(n) ==
    IF n < 10 THEN <<Digits[n + 1]>>
    ELSE to_string(n \div 10) \o <<Digits[(n % 10) + 1]>>

\* keywords of the dispatcher, lines 402-455
KwGRID == <<"G", "R", "I", "D">>
KwCTETRA == <<"C", "T", "E", "T", "R", "A">>
KwCPYRAM == <<"C", "P", "Y", "R", "A", "M">>
KwCHEXA == <<"C", "H", "E", "X", "A">>
KwCTRIA3 == <<"C", "T", "R", "I", "A", "3">>
KwCQUAD4 == <<"C", "Q", "U", "A", "D", "4">>
KwPSOLID == <<"P", "S", "O", "L", "I", "D">>
KwPSHELL == <<"P", "S", "H", "E", "L", "L">>
KwENDDATA == <<"E", "N", "D", "D", "A", "T", "A">>
BeginBulk == <<"B", "E", "G", "I", "N", " ", "B", "U", "L", "K">>
PatchPrefix == <<"p", "a", "t", "c", "h", "_">>
CellZonePrefix == <<"c", "e", "l", "l", "Z", "o", "n", "e", "_">>

\* model.nPoints() of the cell models and the nPoints of readFaces<nPoints>
nPoints(name) ==
    CASE name = KwCTETRA -> 4
      [] name = KwCPYRAM -> 5
      [] name = KwCHEXA -> 8
      [] name = KwCTRIA3 -> 3
      [] name = KwCQUAD4 -> 4

CellKinds == {KwCTETRA, KwCPYRAM, KwCHEXA}
FaceKinds == {KwCTRIA3, KwCQUAD4}

(***************************************************************************)
(* Input files.  A file is a sequence of cards written in the layout of    *)
(* the format mode: fixed columns (left-justified fields, the last field   *)
(* of a line padded to the column width or not) or comma-delimited, with   *)
(* LF or CR LF line ends and with or without the last line end.            *)
(***************************************************************************)

\* how many cards at the end of a scenario may be missing from the file
MaxCut == 2

Card(kw, fields) == [kind |-> "card", kw |-> kw, f |-> fields]
Comment(text) == [kind |-> "comment", kw |-> <<"$">>, f |-> <<text>>]
Raw(text) == [kind |-> "raw", kw |-> text, f |-> <<>>]

PadTo(str, w) == str \o [j \in 1..(w - Len(str)) |-> SP]

RECURSIVE Join(_, _)
Join(fields, sep) ==
    IF fields = <<>> THEN <<>>
    ELSE IF Len(fields) = 1 THEN fields[1]
    ELSE Join(SubSeq(fields, 1, Len(fields) \div 2), sep) \o sep
         \o Join(SubSeq(fields, Len(fields) \div 2 + 1, Len(fields)), sep)

\* fields in columns of width w; atEnd: the last of them ends the line and
\* is padded only when pad
RECURSIVE ColumnsTo(_, _, _, _)
ColumnsTo(fields, w, pad, atEnd) ==
    IF fields = <<>> THEN <<>>
    ELSE IF Len(fields) = 1
    THEN (IF atEnd /\ ~pad THEN fields[1] ELSE PadTo(fields[1], w))
    ELSE ColumnsTo(SubSeq(fields, 1, Len(fields) \div 2), w, pad, FALSE)
         \o ColumnsTo(SubSeq(fields, Len(fields) \div 2 + 1, Len(fields)),
                      w, pad, atEnd)

Columns(fields, w, pad) == ColumnsTo(fields, w, pad, TRUE)

\* the bytes of one line, without its line end
LineOf(c, fmt, pad) ==
    IF c.kind = "raw" THEN c.kw
    ELSE IF c.kind = "comment" THEN c.kw \o c.f[1]
    ELSE IF fmt = FREE THEN Join(<<c.kw>> \o c.f, <<",">>)
    ELSE IF c.f = <<>> THEN (IF pad THEN PadTo(c.kw, EntryWidth) ELSE c.kw)
    ELSE PadTo(c.kw, EntryWidth) \o Columns(c.f, fmt, pad)

\* the line end after a card, atEnd for the last card of the file
LineEnd(style, atEnd) ==
    IF atEnd /\ ~style.finalEol THEN <<>>
    ELSE IF style.crlf THEN <<CR, LF>> ELSE <<LF>>

\* the lines of cards, atEnd when the last of them ends the file
RECURSIVE FileLines(_, _, _, _)
FileLines(cards, fmt, style, atEnd) ==
    IF cards = <<>> THEN <<>>
    ELSE IF Len(cards) = 1
    THEN LineOf(cards[1], fmt, style.pad) \o LineEnd(style, atEnd)
    ELSE FileLines(SubSeq(cards, 1, Len(cards) \div 2), fmt, style, FALSE)
         \o FileLines(SubSeq(cards, Len(cards) \div 2 + 1, Len(cards)), fmt,
                      style, atEnd)

FileOf(cards, fmt, style) == FileLines(cards, fmt, style, TRUE)

Styles ==
    {[pad |-> TRUE, crlf |-> FALSE, finalEol |-> TRUE],
     [pad |-> FALSE, crlf |-> FALSE, finalEol |-> TRUE],
     [pad |-> TRUE, crlf |-> TRUE, finalEol |-> TRUE],
     [pad |-> FALSE, crlf |-> TRUE, finalEol |-> TRUE],
     [pad |-> FALSE, crlf |-> FALSE, finalEol |-> FALSE]}

Formats == {FREE, SMALL, LARGE}

\* coordinates and names used by the scenarios
X0 == <<"0", ".", "0">>
X1 == <<"1", ".", "0">>
XE == <<"1", ".", "5", "-", "3">>
NameFluid == <<"f", "l", "u", "i", "d">>
NameInlet == <<"i", "n", "l", "e", "t">>
NameWall == <<"w", "a", "l", "l">>
TextProperty == <<"*", " ", "P", "r", "o", "p", "e", "r", "t", "y", " ">>

Grid(id, x, y, z) == Card(KwGRID, <<to_string(id), <<"0">>, x, y, z>>)
GridNoCP(id, x, y, z) == Card(KwGRID, <<to_string(id), <<>>, x, y, z>>)
Elem(kw, eid, pid, verts) ==
    Card(kw, <<to_string(eid), to_string(pid)>>
             \o [j \in 1..Len(verts) |-> to_string(verts[j])])
Prop(kw, pid) == Card(kw, <<to_string(pid)>>)
PropMat(kw, pid) == Card(kw, <<to_string(pid), <<"1">>>>)
Named(w) == Comment(TextProperty \o w)
Bulk == Raw(BeginBulk)
Filler == Comment(<<>>)
EndData == Card(KwENDDATA, <<>>)
Foo == Card(<<"F", "O", "O">>, <<to_string(1)>>)

Tetra4 == <<Grid(1, X0, X0, X0), Grid(2, X1, X0, X0), Grid(3, X0, X1, X0),
            Grid(4, X0, X0, XE)>>

\* comments that are stale when the property card is read: a comment
\* without a space follows the naming comment, a card follows it
StaleComments ==
    <<Bulk, Filler, Named(NameInlet), Filler, PropMat(KwPSHELL, 1),
      Named(NameWall), Grid(1, X0, X0, X0), PropMat(KwPSOLID, 2), EndData>>

\* a tetrahedron split over a continuation line
SplitRecord ==
    <<Bulk, Filler>> \o Tetra4
        \o <<Card(KwCTETRA, <<to_string(1), to_string(7), to_string(1),
                              to_string(2), <<"+">>>>),
             Card(<<"+">>, <<to_string(3), to_string(4)>>),
             PropMat(KwPSOLID, 7), EndData>>

\* the same, the file ending in the flag field of the continuation line
Truncated ==
    <<Bulk, Filler>> \o Tetra4
        \o <<Card(KwCTETRA, <<to_string(1), to_string(7), to_string(1),
                              to_string(2), <<"+">>>>),
             Raw(<<"+">>)>>

\* the minimal file: BEGIN BULK, four grids, one tetrahedron, a named
\* PSOLID, ENDDATA
MinimalFile ==
    <<Bulk>> \o Tetra4
        \o <<Elem(KwCTETRA, 1, 7, <<1, 2, 3, 4>>), Named(NameFluid),
             PropMat(KwPSOLID, 7), EndData>>

Scenarios ==
    {MinimalFile,
     StaleComments,
     SplitRecord,
     Truncated,
     <<Raw(<<"C", "E", "N", "D">>), Bulk, Filler>> \o Tetra4
        \o <<Elem(KwCTETRA, 1, 7, <<1, 2, 3, 4>>), Named(NameFluid),
             PropMat(KwPSOLID, 7), EndData>>,
     \* sparse point IDs; an undeclared ID inside the list, one beyond it
     <<Bulk, Filler, Grid(1, X0, X0, X0), Grid(5, X1, X0, X0),
       Grid(100, X0, X1, X0), GridNoCP(7, X0, X0, X1),
       Elem(KwCTETRA, 1, 1, <<100, 5, 1, 7>>),
       Elem(KwCTRIA3, 2, 2, <<5, 100, 7>>),
       Elem(KwCTRIA3, 3, 2, <<5, 9, 7>>),
       Elem(KwCTRIA3, 4, 2, <<5, 200, 7>>),
       PropMat(KwPSOLID, 1), PropMat(KwPSHELL, 2), EndData>>,
     \* a point used before it is declared
     <<Bulk, Filler, Grid(1, X0, X0, X0), Grid(2, X1, X0, X0),
       Elem(KwCTRIA3, 1, 1, <<1, 2, 3>>), Grid(3, X0, X1, X0),
       PropMat(KwPSHELL, 1), EndData>>,
     \* a property declared twice
     <<Bulk, Filler, Named(NameInlet), PropMat(KwPSOLID, 1), Named(NameWall),
       PropMat(KwPSHELL, 1), EndData>>,
     \* two PSHELL cards, one named by the comment before it
     <<Bulk, Filler>> \o Tetra4
        \o <<Elem(KwCTRIA3, 1, 1, <<1, 2, 3>>),
             Elem(KwCQUAD4, 2, 2, <<1, 2, 3, 4>>),
             Named(NameInlet), Prop(KwPSHELL, 1), PropMat(KwPSHELL, 2),
             EndData>>,
     <<Bulk, Filler>> \o Tetra4
        \o <<Elem(KwCTRIA3, 1, 1, <<1, 2, 3>>),
             Elem(KwCQUAD4, 2, 2, <<1, 2, 3, 4>>),
             PropMat(KwPSHELL, 2), Named(NameInlet), Prop(KwPSHELL, 1),
             Filler, EndData>>,
     \* the named PSHELL card right after BEGIN BULK
     <<Bulk, Named(NameInlet), PropMat(KwPSHELL, 1)>> \o Tetra4
        \o <<Elem(KwCTRIA3, 1, 1, <<1, 2, 3>>), EndData>>,
     \* a point ID declared twice
     <<Bulk, Filler, Grid(1, X0, X0, X0), Grid(2, X1, X0, X0),
       Grid(1, X0, X1, X0), Grid(3, X0, X0, X1),
       Elem(KwCTRIA3, 1, 1, <<1, 2, 3>>), PropMat(KwPSHELL, 1), EndData>>,
     \* property IDs that are used and never declared
     <<Bulk, Filler>> \o Tetra4
        \o <<Elem(KwCTRIA3, 1, 3, <<1, 2, 3>>), EndData>>,
     <<Bulk, Filler>> \o Tetra4
        \o <<Elem(KwCTETRA, 1, 3, <<1, 2, 3, 4>>), EndData>>,
     \* lines after ENDDATA, an unknown keyword
     <<Bulk, Filler, Grid(1, X0, X0, X0), EndData, Foo, EndData>>,
     <<Bulk, Filler, Grid(1, X0, X0, X0), Foo, EndData>>,
     \* groups used and declared in different orders of their IDs
     <<Bulk, Filler>> \o Tetra4
        \o <<Elem(KwCTRIA3, 1, 129, <<1, 2, 3>>),
             Elem(KwCTRIA3, 2, 2, <<1, 2, 4>>),
             Elem(KwCTRIA3, 3, 1, <<1, 3, 4>>),
             Elem(KwCTETRA, 4, 130, <<1, 2, 3, 4>>),
             Elem(KwCTETRA, 5, 3, <<1, 2, 4, 3>>),
             PropMat(KwPSHELL, 2), Named(NameWall), PropMat(KwPSHELL, 129),
             PropMat(KwPSHELL, 1), PropMat(KwPSOLID, 130),
             PropMat(KwPSOLID, 3), EndData>>,
     <<Bulk, Filler>> \o Tetra4
        \o <<Elem(KwCTRIA3, 1, 1, <<1, 2, 3>>),
             Elem(KwCTRIA3, 2, 129, <<1, 2, 4>>),
             Elem(KwCTETRA, 3, 2, <<1, 2, 3, 4>>),
             Elem(KwCTETRA, 4, 4, <<1, 2, 4, 3>>),
             Elem(KwCTETRA, 5, 2, <<1, 3, 4, 2>>),
             PropMat(KwPSHELL, 1), PropMat(KwPSHELL, 129),
             Named(NameFluid), PropMat(KwPSOLID, 4), PropMat(KwPSOLID, 2),
             EndData>>,
     \* pyramids and hexahedra, a collapsed cell
     <<Bulk, Filler>> \o Tetra4
        \o <<Grid(5, X1, X1, X0), Grid(6, X1, X0, X1), Grid(7, X0, X1, X1),
             Grid(8, X1, X1, X1),
             Elem(KwCPYRAM, 1, 1, <<1, 2, 3, 4, 5>>),
             Elem(KwCHEXA, 2, 1, <<1, 2, 3, 4, 5, 6, 7, 8>>),
             Elem(KwCHEXA, 3, 2, <<1, 2, 3, 4, 5, 6, 7, 7>>),
             PropMat(KwPSOLID, 1), PropMat(KwPSOLID, 2), EndData>>}

\* what the build leaves undefined in one step: the bytes of the
\* uninitialised field buffer, the byte before it, and the outcome of a read
\* outside pointIDs
UB ==
    {[stale |-> <<>>, under |-> FALSE, wild |-> -1, segv |-> FALSE],
     [stale |-> KwGRID, under |-> FALSE, wild |-> 0, segv |-> FALSE],
     [stale |-> <<LF>>, under |-> TRUE, wild |-> -1, segv |-> FALSE],
     [stale |-> <<>>, under |-> FALSE, wild |-> -1, segv |-> TRUE]}

(***************************************************************************)
(* The records of the dispatcher.  Each operator reads one record from the *)
(* stream and returns status "ok", "fatal" (with err, the process exits)   *)
(* or "hang", with the stream and what it read.                            *)
(***************************************************************************)

\* findBulk(is), lines 54-63; g is the line just read
RECURSIVE findBulk(_)
RECURSIVE findBulkIn(_)
findBulkIn(g) ==
    IF Len(g.str) >= Len(BeginBulk)
       /\ SubSeq(g.str, 1, Len(BeginBulk)) = BeginBulk
    THEN [s |-> g.s, found |-> TRUE]
    ELSE findBulk(g.s)

findBulk(s) ==
    IF ~s.good THEN [s |-> s, found |-> FALSE] ELSE findBulkIn(getLine(s))

Failed(s, e) == [status |-> "fatal", err |-> e, s |-> s]
Hung(s) == [status |-> "hang", err |-> "none", s |-> s]

\* the status of a typed read
ReadStatus(r) ==
    IF r.hang THEN Hung(r.s)
    ELSE IF ~r.ok THEN Failed(r.s, "MalformedNumber")
    ELSE [status |-> "ok", err |-> "none", s |-> r.s]

\* pt[0] = getScalar(is); pt[1] = ...; lines 244-246
RECURSIVE readCoords(_, _, _, _)
RECURSIVE readCoord(_, _, _, _)
readCoord(x, n, ub, pt) ==
    IF ReadStatus(x).status # "ok" THEN ReadStatus(x)
    ELSE readCoords(x.s, n - 1, ub, Append(pt, x.val))

readCoords(s, n, ub, pt) ==
    IF n = 0 THEN [status |-> "ok", err |-> "none", s |-> s, pt |-> pt]
    ELSE readCoord(getScalar(s, ub), n, ub, pt)

\* lines 238 and 247: the point is mapped and appended
pointRead(id, c, pts, pids) ==
    IF c.status # "ok" THEN c
    ELSE [status |-> "ok", err |-> "none", s |-> c.s, id |-> id.val,
          points |-> Append(pts, c.pt),
          pointIDs |-> IF id.val < 0 THEN pids
                       ELSE setPointID(pids, id.val, Len(pts))]

\* line 241: the CP column is read and ignored
pointAfterCP(id, cp, pts, pids, ub) ==
    IF cp.hang THEN Hung(cp.s)
    ELSE pointRead(id, readCoords(cp.s, 3, ub, <<>>), pts, pids)

\* lines 233-238, id the label read; a write before the list is a fault
\* or lands outside it
pointAfterID(id, pts, pids, ub) ==
    IF ReadStatus(id).status # "ok" THEN ReadStatus(id)
    ELSE IF id.val < 0 /\ ub.segv THEN Failed(id.s, "SegFault")
    ELSE pointAfterCP(id, getColumn(id.s, format, ub), pts, pids, ub)

\* one pass of the body of readPoints, lines 233-247
readPoint(s, pts, pids, ub) == pointAfterID(getLabel(s, ub), pts, pids, ub)

\* forAll(verts, i) verts[i] = pointIDs[getLabel(is)];  lines 278-281, 308-311
RECURSIVE readVerts(_, _, _, _, _, _)
RECURSIVE vertLooked(_, _, _, _, _, _, _)
RECURSIVE vertRead(_, _, _, _, _, _)
vertLooked(id, v, n, pids, ub, verts, raw) ==
    IF ~v.ok THEN Failed(id.s, "SegFault")
    ELSE readVerts(id.s, n - 1, pids, ub, Append(verts, v.val),
                   Append(raw, id.val))

vertRead(id, n, pids, ub, verts, raw) ==
    IF ReadStatus(id).status # "ok" THEN ReadStatus(id)
    ELSE vertLooked(id, lookupPoint(pids, id.val, ub), n, pids, ub, verts, raw)

readVerts(s, n, pids, ub, verts, raw) ==
    IF n = 0
    THEN [status |-> "ok", err |-> "none", s |-> s, verts |-> verts,
          raw |-> raw]
    ELSE vertRead(getLabel(s, ub), n, pids, ub, verts, raw)

IsSet(seq) == \A j, k \in 1..Len(seq) : seq[j] = seq[k] => j = k

addNew(rest, x) ==
    IF \E j \in 1..Len(rest) : rest[j] = x THEN rest ELSE Append(rest, x)

\* the elements of seq, each once, in the order of their first occurrence
RECURSIVE Dedup(_)
Dedup(seq) ==
    IF seq = <<>> THEN <<>>
    ELSE addNew(Dedup(SubSeq(seq, 1, Len(seq) - 1)), seq[Len(seq)])

\* cellShape(model, verts, true): a shape with repeated vertices is collapsed
cellShape(name, verts) ==
    IF IsSet(verts) THEN [model |-> name, verts |-> verts]
    ELSE [model |-> "collapsed", verts |-> Dedup(verts)]

\* m.at(k).append(item)
appendAt(m, k, item) ==
    [j \in 1..Len(m) |->
        IF m[j].key = k THEN [m[j] EXCEPT !.val = Append(@, item)] ELSE m[j]]

\* the item goes to every group
appendToGroup_everyGroup(m, k, item) ==
    [j \in 1..Len(insert(m, k, <<>>)) |->
        [insert(m, k, <<>>)[j] EXCEPT !.val = Append(@, item)]]

\* the group of a property ID, created empty when it is not there, with one
\* more item; lines 271-275 and 302-305, 312
appendToGroup(m, k, item) == appendAt(insert(m, k, <<>>), k, item)

\* the vertices read, with the property ID read before them
elementRead(prop, vs) ==
    IF vs.status # "ok" THEN vs
    ELSE [status |-> "ok", err |-> "none", s |-> vs.s, verts |-> vs.verts,
          raw |-> vs.raw, prop |-> prop.val]

elementAfterProp(prop, name, pids, ub) ==
    IF ReadStatus(prop).status # "ok" THEN ReadStatus(prop)
    ELSE elementRead(prop, readVerts(prop.s, nPoints(name), pids, ub,
                                     <<>>, <<>>))

elementAfterID(eid, name, pids, ub) ==
    IF eid.hang THEN Hung(eid.s)
    ELSE elementAfterProp(getLabel(eid.s, ub), name, pids, ub)

\* what one pass of the body of readCell / readFaces reads (lines 269-281,
\* 300-311): the ignored ID column, the property ID, the vertices
readElement(s, name, pids, ub) ==
    elementAfterID(getColumn(s, format, ub), name, pids, ub)

\* the comment's word is stored whatever line it was read on
propertyName_anyLine(cl, line, cb, dflt) == IF ~dflt THEN cb ELSE <<>>

\* the name stored for a property, lines 445-452
propertyName(cl, line, cb, dflt) ==
    IF cl = line /\ ~dflt THEN cb ELSE <<>>

\* a branch without the test of line 438: the later declaration wins
propertyRead_overwrite(id, names, cl, cb, dflt) ==
    IF ReadStatus(id).status # "ok" THEN ReadStatus(id)
    ELSE [status |-> "ok", err |-> "none", s |-> id.s, prop |-> id.val,
          propNames |-> assign(insert(names, id.val, <<>>), id.val,
                               propertyName(cl, id.s.line, cb, dflt))]

\* lines 438-452, id the property ID read
propertyRead(id, names, cl, cb, dflt) ==
    IF ReadStatus(id).status # "ok" THEN ReadStatus(id)
    ELSE IF found(names, id.val)
    THEN [status |-> "fatal", err |-> "DuplicateProperty", s |-> id.s,
          prop |-> id.val]
    ELSE [status |-> "ok", err |-> "none", s |-> id.s, prop |-> id.val,
          propNames |-> insert(names, id.val,
                               propertyName(cl, id.s.line, cb, dflt))]

\* the PSOLID/PSHELL branch up to the insert, lines 437-452
readProperty(s, names, cl, cb, dflt, ub) ==
    propertyRead(getLabel(s, ub), names, cl, cb, dflt)

\* the name of a retained group: the stored one, or prefix + counter;
\* lines 479-486 and 520-521
groupName(stored, prefix, n) ==
    IF stored = <<>> THEN prefix \o to_string(n) ELSE stored

\* a counter that counts every group
nextCounter_everyGroup(stored, n) == n + 1

\* the counter after naming a group
nextCounter(stored, n) == IF stored = <<>> THEN n + 1 ELSE n

(***************************************************************************)
(* main(): the state machine.                                              *)
(***************************************************************************)

\* what main() never changes
cfgVars == <<file, format, defaultNames, input, call, got>>
dataVars == <<points, pointIDs, cells, cellPropIDs, patches, propNames>>
outVars == <<patchFaces, patchNames, unnamedPatchN, cZones, unnamedCellZoneN,
             loopI, mesh>>
cursorVars == <<entryBuff, commentBuffer, commentLine, entryAt>>

Start == [pos |-> 1, line |-> 1, good |-> TRUE, pb |-> NoChar]

\* no call of the tokenizer on its own
NoCall == [op |-> "none", before |-> Start, str |-> <<>>, data |-> <<>>,
           oob |-> FALSE, n |-> 0]

NoMesh == [built |-> FALSE, written |-> FALSE, points |-> <<>>,
           cells |-> <<>>, patchFaces |-> <<>>, patchNames |-> <<>>,
           zones |-> <<>>]

Init ==
    /\ \E sc \in Scenarios, fmt \in Formats, style \in Styles,
          cut \in 0..MaxCut :
          /\ cut < Len(sc)
          /\ input = [cards |-> SubSeq(sc, 1, Len(sc) - cut),
                       style |-> style]
          /\ file = FileOf(SubSeq(sc, 1, Len(sc) - cut), fmt, style)
          /\ format = fmt
    /\ defaultNames \in BOOLEAN
    /\ is = [pos |-> 1, line |-> 1, good |-> TRUE, pb |-> NoChar]
    /\ entryBuff = <<>>
    /\ commentBuffer = <<>>
    /\ commentLine = 0
    /\ points = <<>>
    /\ pointIDs = <<>>
    /\ cells = <<>>
    /\ cellPropIDs = <<>>
    /\ patches = <<>>
    /\ propNames = <<>>
    /\ patchFaces = <<>>
    /\ patchNames = <<>>
    /\ unnamedPatchN = 0
    /\ cZones = <<>>
    /\ unnamedCellZoneN = 0
    /\ loopI = 0
    /\ mesh = NoMesh
    /\ run = <<>>
    /\ pc = "findBulk"
    /\ err = "none"
    /\ hist = <<>>
    /\ entryAt = 0
    /\ call = NoCall
    /\ got = <<>>

\* the process ends: FatalError exit (or a fault), or a loop that never ends
Halt(status, e, s) ==
    /\ pc' = status
    /\ err' = e
    /\ is' = s
    /\ UNCHANGED <<cfgVars, cursorVars, dataVars, outVars, run, hist>>

\* the stream, commentBuffer and commentLine as the readers thread them
Cursor(s) == [s |-> s, cb |-> commentBuffer, cl |-> commentLine]

\* the cursor moves to the entry e read by getEntry(is) after a record of
\* the run kw (<<>> outside a run): the do-while goes on while the keyword
\* read is kw
AdvanceTo(e, kw) ==
    /\ is' = e.s
    /\ entryBuff' = e.entry
    /\ commentBuffer' = e.cb
    /\ commentLine' = e.cl
    /\ entryAt' = e.at
    /\ err' = err
    /\ IF e.hang THEN pc' = "hang" /\ run' = run
       ELSE IF kw # <<>> /\ e.entry = kw THEN pc' = "run" /\ run' = kw
       ELSE pc' = "loop" /\ run' = <<>>

Advance(s, kw, ub) == AdvanceTo(getEntry(Cursor(s), ub), kw)

FoundBulk(r) ==
    IF r.found
    THEN /\ pc' = "firstEntry"
         /\ is' = r.s
         /\ UNCHANGED <<cfgVars, cursorVars, dataVars, outVars, run, err,
                        hist>>
    ELSE Halt("fatal", "FormatMarkerMissing", r.s)

\* lines 372-377
FindBulk ==
    /\ pc = "findBulk"
    /\ FoundBulk(findBulk(is))

\* line 397
FirstEntry ==
    /\ pc = "firstEntry"
    /\ \E ub \in UB :
          /\ Advance(is, <<>>, ub)
          /\ UNCHANGED <<cfgVars, dataVars, outVars, hist>>

\* the dispatcher is at the branch for kw, or inside the run of kw
AtRecord(kw) ==
    IF pc = "loop" THEN is.good /\ entryBuff = kw
    ELSE pc = "run" /\ run = kw

PointDone(r, ub) ==
    IF r.status # "ok" THEN Halt(r.status, r.err, r.s)
    ELSE /\ points' = r.points
         /\ pointIDs' = r.pointIDs
         /\ hist' = Append(hist, [kw |-> KwGRID, at |-> is.pos, id |-> r.id,
                                  index |-> Len(points)])
         /\ Advance(r.s, KwGRID, ub)
         /\ UNCHANGED <<cfgVars, cells, cellPropIDs, patches, propNames,
                        outVars>>

\* lines 402-405 and readPoints
ReadPoints ==
    /\ AtRecord(KwGRID)
    /\ \E ub \in UB : PointDone(readPoint(is, points, pointIDs, ub), ub)

CellDone(r, name, ub) ==
    IF r.status # "ok" THEN Halt(r.status, r.err, r.s)
    ELSE /\ cellPropIDs' = appendToGroup(cellPropIDs, r.prop, Len(cells))
         /\ cells' = Append(cells, cellShape(name, r.verts))
         /\ hist' = Append(hist, [kw |-> name, at |-> is.pos,
                                  prop |-> r.prop, raw |-> r.raw,
                                  verts |-> r.verts, index |-> Len(cells)])
         /\ Advance(r.s, name, ub)
         /\ UNCHANGED <<cfgVars, points, pointIDs, patches, propNames,
                        outVars>>

\* lines 406-423 and readCell
ReadCell ==
    \E name \in CellKinds :
       /\ AtRecord(name)
       /\ \E ub \in UB : CellDone(readElement(is, name, pointIDs, ub), name, ub)

FaceDone(r, name, ub) ==
    IF r.status # "ok" THEN Halt(r.status, r.err, r.s)
    ELSE /\ patches' = appendToGroup(patches, r.prop, r.verts)
         /\ hist' = Append(hist, [kw |-> name, at |-> is.pos,
                                  prop |-> r.prop, raw |-> r.raw,
                                  verts |-> r.verts])
         /\ Advance(r.s, name, ub)
         /\ UNCHANGED <<cfgVars, points, pointIDs, cells, cellPropIDs,
                        propNames, outVars>>

\* lines 424-433 and readFaces
ReadFaces ==
    \E name \in FaceKinds :
       /\ AtRecord(name)
       /\ \E ub \in UB : FaceDone(readElement(is, name, pointIDs, ub), name, ub)

PropertyDone(r, ub) ==
    IF r.status = "fatal" /\ r.err = "DuplicateProperty"
    THEN /\ pc' = "fatal"
         /\ err' = r.err
         /\ is' = r.s
         /\ hist' = Append(hist, [kw |-> entryBuff, at |-> is.pos,
                                  prop |-> r.prop, name |-> <<>>])
         /\ UNCHANGED <<cfgVars, cursorVars, dataVars, outVars, run>>
    ELSE IF r.status # "ok" THEN Halt(r.status, r.err, r.s)
    ELSE /\ propNames' = r.propNames
         /\ hist' = Append(hist, [kw |-> entryBuff, at |-> is.pos,
                                  prop |-> r.prop,
                                  name |-> at(r.propNames, r.prop)])
         /\ Advance(r.s, <<>>, ub)
         /\ UNCHANGED <<cfgVars, points, pointIDs, cells, cellPropIDs,
                        patches, outVars>>

\* lines 434-454
ReadProperty ==
    /\ pc = "loop"
    /\ is.good
    /\ entryBuff \in {KwPSOLID, KwPSHELL}
    /\ \E ub \in UB :
          PropertyDone(readProperty(is, propNames, commentLine,
                                    commentBuffer, defaultNames, ub), ub)

\* lines 455-459
EndOfData ==
    /\ pc = "loop"
    /\ is.good
    /\ entryBuff = KwENDDATA
    /\ pc' = "resolve"
    /\ hist' = Append(hist, [kw |-> KwENDDATA, at |-> is.pos])
    /\ UNCHANGED <<cfgVars, is, cursorVars, dataVars, outVars, run, err>>

Keywords ==
    {KwGRID, KwPSOLID, KwPSHELL, KwENDDATA} \cup CellKinds \cup FaceKinds

\* lines 460-466
UnknownKeyword ==
    /\ pc = "loop"
    /\ is.good
    /\ entryBuff \notin Keywords
    /\ Halt("fatal", "UnknownKeyword", is)

\* line 400: the loop ends when the stream is no longer good
StreamEnded ==
    /\ pc = "loop"
    /\ ~is.good
    /\ pc' = "resolve"
    /\ UNCHANGED <<cfgVars, is, cursorVars, dataVars, outVars, run, err, hist>>

\* lines 474-487 for the property ID propI, stored the name propNames has
PatchOf(propI, stored) ==
    /\ IF Len(at(patches, propI)) > 0
       THEN /\ patchFaces' = Append(patchFaces, at(patches, propI))
            /\ patches' = assign(patches, propI, <<>>)
            /\ patchNames' =
                  Append(patchNames,
                         groupName(stored, PatchPrefix, unnamedPatchN))
            /\ unnamedPatchN' = nextCounter(stored, unnamedPatchN)
            /\ hist' = Append(hist, [kw |-> PatchPrefix, at |-> loopI,
                                     prop |-> propI, stored |-> stored])
       ELSE UNCHANGED <<patchFaces, patches, patchNames, unnamedPatchN, hist>>
    /\ loopI' = loopI + 1
    /\ UNCHANGED <<cfgVars, is, cursorVars, points, pointIDs, cells,
                   cellPropIDs, propNames, cZones, unnamedCellZoneN, mesh,
                   run, pc, err>>

\* propNames.at(propI) is a fatal error for a key that is not there
PatchFor(propI) ==
    IF ~found(propNames, propI) THEN Halt("fatal", "KeyNotFound", is)
    ELSE PatchOf(propI, at(propNames, propI))

\* one pass of the loop of lines 472-488
ResolvePatch ==
    /\ pc = "resolve"
    /\ loopI < Len(patches)
    /\ PatchFor(toc(patches)[loopI + 1])

\* lines 491-510: the mesh is constructed from what was assembled
ConstructMesh ==
    /\ pc = "resolve"
    /\ loopI = Len(patches)
    /\ mesh' = [mesh EXCEPT !.built = TRUE, !.points = points,
                            !.cells = cells, !.patchFaces = patchFaces,
                            !.patchNames = patchNames]
    /\ pc' = IF Len(cellPropIDs) > 0 THEN "zones" ELSE "write"
    /\ loopI' = 0
    /\ UNCHANGED <<cfgVars, is, cursorVars, dataVars, patchFaces, patchNames,
                   unnamedPatchN, cZones, unnamedCellZoneN, run, err, hist>>

\* lines 518-531 for the property ID propI, stored the name propNames has
ZoneOf(propI, stored) ==
    /\ cZones' = Append(cZones,
                        [name |-> groupName(stored, CellZonePrefix,
                                            unnamedCellZoneN),
                         cells |-> at(cellPropIDs, propI),
                         index |-> loopI])
    /\ unnamedCellZoneN' = nextCounter(stored, unnamedCellZoneN)
    /\ hist' = Append(hist, [kw |-> CellZonePrefix, at |-> loopI,
                             prop |-> propI, stored |-> stored])
    /\ loopI' = loopI + 1
    /\ UNCHANGED <<cfgVars, is, cursorVars, dataVars, patchFaces, patchNames,
                   unnamedPatchN, mesh, run, pc, err>>

ZoneFor(propI) ==
    IF ~found(propNames, propI) THEN Halt("fatal", "KeyNotFound", is)
    ELSE ZoneOf(propI, at(propNames, propI))

\* one pass of the loop of lines 516-532
AddCellZone ==
    /\ pc = "zones"
    /\ loopI < Len(cellPropIDs)
    /\ ZoneFor(toc(cellPropIDs)[loopI + 1])

\* line 534
AddZones ==
    /\ pc = "zones"
    /\ loopI = Len(cellPropIDs)
    /\ mesh' = [mesh EXCEPT !.zones = cZones]
    /\ pc' = "write"
    /\ UNCHANGED <<cfgVars, is, cursorVars, dataVars, patchFaces, patchNames,
                   unnamedPatchN, cZones, unnamedCellZoneN, loopI, run, err,
                   hist>>

\* lines 557-564
WriteMesh ==
    /\ pc = "write"
    /\ mesh' = [mesh EXCEPT !.written = TRUE]
    /\ pc' = "done"
    /\ UNCHANGED <<cfgVars, is, cursorVars, dataVars, patchFaces, patchNames,
                   unnamedPatchN, cZones, unnamedCellZoneN, loopI, run, err,
                   hist>>

\* line 148 at the end of the file: get() fails, c is not a comma, and the
\* loop goes round again with nothing changed
Spin ==
    /\ pc = "hang"
    /\ UNCHANGED vars

Next ==
    \/ FindBulk
    \/ FirstEntry
    \/ ReadPoints
    \/ ReadCell
    \/ ReadFaces
    \/ ReadProperty
    \/ EndOfData
    \/ UnknownKeyword
    \/ StreamEnded
    \/ ResolvePatch
    \/ ConstructMesh
    \/ AddCellZone
    \/ AddZones
    \/ WriteMesh
    \/ Spin

Spec == Init /\ [][Next]_vars

(***************************************************************************)
(* The tokenizer on its own: getEntry(), getColumn() and getScalar() are   *)
(* called one after the other on the stream of a file of one or two        *)
(* records, as the readers of main() call them.  call is the last call:    *)
(* the stream before it, the string it returned, the string getScalar made *)
(* of it (data), whether it used the field buffer outside its bounds, and  *)
(* how many calls were made; got are the fields returned since the last    *)
(* getEntry().  Calls are made while the stream is good.                   *)
(***************************************************************************)

\* how many calls are made on one file
MaxCalls == 8

\* how long the generated fields of signs, digits and exponent letters are
MaxSign == 3

Marker == <<"+">>
Star == <<"*">>
XBigE == <<"1", ".", "5", "E", "-", "3">>
XNeg == <<"-", "2", ".", "5", "+", "1">>
Long == [j \in 1..BuffSize |-> "1"]

SignBytes == {"1", "+", "-", "e"}
SignStrings == UNION {[1..n -> SignBytes] : n \in 1..MaxSign}

TokenInputs ==
    {\* a record on one line, and split over a continuation line
     <<Bulk, Elem(KwCTETRA, 1, 2, <<11, 12, 13, 14>>), EndData>>,
     <<Bulk, Card(KwCTETRA, <<to_string(1), to_string(2), to_string(11),
                              to_string(12), Marker>>),
       Card(Marker, <<to_string(13), to_string(14)>>), EndData>>,
     <<Bulk, Card(KwCTETRA, <<to_string(1), to_string(2), to_string(11),
                              to_string(12), Marker>>),
       Card(Star, <<to_string(13), to_string(14)>>), EndData>>,
     \* a blank field, numbers with and without the exponent letter
     <<Bulk, GridNoCP(1, XE, XBigE, XNeg), EndData>>,
     \* a field as long as the field buffer
     <<Bulk, Card(KwGRID, <<Long>>), EndData>>,
     \* a continuation line that ends the file without a delimiter
     <<Bulk, Card(KwCTETRA, <<to_string(1), Marker>>), Raw(Marker)>>}
    \cup {<<Bulk, Card(KwGRID, <<f>>)>> : f \in SignStrings}

TokenInit ==
    /\ \E cards \in TokenInputs, fmt \in Formats, style \in Styles :
          /\ input = [cards |-> cards, style |-> style]
          /\ file = FileOf(cards, fmt, style)
          /\ format = fmt
    /\ defaultNames = FALSE
    /\ is = Start
    /\ entryBuff = <<>>
    /\ commentBuffer = <<>>
    /\ commentLine = 0
    /\ points = <<>>
    /\ pointIDs = <<>>
    /\ cells = <<>>
    /\ cellPropIDs = <<>>
    /\ patches = <<>>
    /\ propNames = <<>>
    /\ patchFaces = <<>>
    /\ patchNames = <<>>
    /\ unnamedPatchN = 0
    /\ cZones = <<>>
    /\ unnamedCellZoneN = 0
    /\ loopI = 0
    /\ mesh = NoMesh
    /\ run = <<>>
    /\ pc = "firstEntry"
    /\ err = "none"
    /\ hist = <<>>
    /\ entryAt = 0
    /\ call = NoCall
    /\ got = <<>>

Called(op, str, data, oob) ==
    [op |-> op, before |-> is, str |-> str, data |-> data, oob |-> oob,
     n |-> call.n + 1]

\* entryBuff = getEntry(is)
EntryCalled(e) ==
    /\ AdvanceTo(e, <<>>)
    /\ call' = Called("getEntry", e.entry, <<>>, e.oob)
    /\ got' = <<>>
    /\ UNCHANGED <<file, format, defaultNames, input, dataVars, outVars,
                   hist>>

CallGetEntry ==
    /\ pc \in {"firstEntry", "loop"}
    /\ is.good
    /\ call.n < MaxCalls
    /\ \E ub \in UB : EntryCalled(getEntry(Cursor(is), ub))

\* a field of the record is read: r is what getColumn(is) returned
ColumnCalled(op, r, data) ==
    /\ is' = r.s
    /\ call' = Called(op, r.str, data, r.oob)
    /\ got' = Append(got, r.str)
    /\ pc' = IF r.hang THEN "hang" ELSE pc
    /\ UNCHANGED <<file, format, defaultNames, input, cursorVars, dataVars,
                   outVars, run, err, hist>>

CallGetColumn ==
    /\ pc = "loop"
    /\ is.good
    /\ call.n < MaxCalls
    /\ \E ub \in UB : ColumnCalled("getColumn", getColumn(is, format, ub), <<>>)

\* getScalar(is) up to the string it hands to readFloat, lines 206-213
ScalarCalled(r) == ColumnCalled("getScalar", r, repairExponent(r.str))

CallGetScalar ==
    /\ pc = "loop"
    /\ is.good
    /\ call.n < MaxCalls
    /\ \E ub \in UB : ScalarCalled(getColumn(is, format, ub))

TokenNext ==
    \/ CallGetEntry
    \/ CallGetColumn
    \/ CallGetScalar

TokenSpec == TokenInit /\ [][TokenNext]_vars

(***************************************************************************)
(* Properties.  hist is read as the log of the run: the GRID, element and  *)
(* property records the dispatcher has handled, in order, and after them   *)
(* the groups the resolver has emitted.                                    *)
(***************************************************************************)

Terminal == pc \in {"done", "fatal", "hang"}
Resolving == pc \in {"resolve", "zones", "write", "done"}

IsGrid(h) == h.kw = KwGRID
IsElement(h) == h.kw \in CellKinds \cup FaceKinds
IsProperty(h) == h.kw \in {KwPSOLID, KwPSHELL}

Records(P(_)) == {n \in 1..Len(hist) : P(hist[n])}

\* the GRID records among the first n records that declare the point ID id
Declarations(id, n) == {j \in 1..n : IsGrid(hist[j]) /\ hist[j].id = id}

\* the position in the point list of the point that record n created
PointOf(n) == Cardinality({j \in 1..(n - 1) : IsGrid(hist[j])})

\* record n declares a property ID that an earlier record declared
Redeclares(n) ==
    \E j \in 1..(n - 1) : IsProperty(hist[j]) /\ hist[j].prop = hist[n].prop

\* the property IDs that own a face / a cell that was read
FacePids == {hist[n].prop : n \in {m \in 1..Len(hist) : hist[m].kw \in FaceKinds}}
CellPids == {hist[n].prop : n \in {m \in 1..Len(hist) : hist[m].kw \in CellKinds}}

IsPatch(h) == h.kw = PatchPrefix
IsZone(h) == h.kw = CellZonePrefix

\* the groups of one kind the resolver has emitted, in the order it did
Emitted(prefix) == SelectSeq(hist, LAMBDA h : h.kw = prefix)

\* how many of the first k - 1 groups of e had no stored name
UnnamedBefore(e, k) == Cardinality({j \in 1..(k - 1) : e[j].stored = <<>>})

\* the name the naming rule gives to group k of e
RuleName(e, k, prefix) ==
    IF e[k].stored # <<>> THEN e[k].stored
    ELSE prefix \o to_string(UnnamedBefore(e, k))

Ascending(e) == \A j, k \in 1..Len(e) : j < k => e[j].prop < e[k].prop

\* where card i of the input starts in the file
OffsetOf(i) ==
    Len(FileOf(SubSeq(input.cards, 1, i - 1), format,
               [input.style EXCEPT !.finalEol = TRUE])) + 1

\* entryBuff was read from the keyword field of an ENDDATA card
EndDataRead ==
    \E i \in 1..Len(input.cards) :
       input.cards[i] = EndData /\ entryAt = OffsetOf(i)

Names == {NameFluid, NameInlet, NameWall}

\* C1: the minimal file (BEGIN BULK, four GRID cards, one CTETRA on them, a
\* comment naming the PSOLID card after it, ENDDATA) ends successfully with
\* 4 points, 1 cell, one cell zone with the comment's name holding cell 0,
\* and no patch, when naming by comments is enabled.
C1_MinimalFile ==
    input.cards = MinimalFile /\ ~defaultNames /\ Terminal
    => /\ pc = "done"
       /\ mesh.written
       /\ Len(mesh.points) = 4
       /\ Len(mesh.cells) = 1
       /\ mesh.cells[1] = [model |-> KwCTETRA, verts |-> <<0, 1, 2, 3>>]
       /\ Len(mesh.zones) = 1
       /\ mesh.zones[1].name = NameFluid
       /\ mesh.zones[1].cells = <<0>>
       /\ mesh.patchFaces = <<>>

\* C2: a cell or face record that references a point ID no earlier GRID
\* record declared is never appended, and no mesh is handed to the mesh
\* builder after such a record.
C2_UnresolvedPointReference ==
    \A n \in Records(IsElement) :
       \A i \in 1..Len(hist[n].raw) : Declarations(hist[n].raw[i], n) # {}

\* C3: every point ID declared by exactly one GRID record is mapped to the
\* 0-based position of the point that record created, the points are in the
\* order of their records, and every later reference to such an ID resolves
\* to that position.
C3_PointIndex ==
    /\ Len(points) = Cardinality(Records(IsGrid))
    /\ \A n \in Records(IsGrid) :
          Cardinality(Declarations(hist[n].id, Len(hist))) = 1
          => /\ hist[n].id < Len(pointIDs)
             /\ pointIDs[hist[n].id + 1] = PointOf(n)
             /\ PointOf(n) < Len(points)
    /\ \A n \in Records(IsElement) :
          \A i \in 1..Len(hist[n].raw) :
             \A d \in Declarations(hist[n].raw[i], n) :
                Cardinality(Declarations(hist[n].raw[i], n)) = 1
                => hist[n].verts[i] = PointOf(d)

\* C3 witness: the points 1, 5, 100, 7 were declared in this order and a
\* tetrahedron on 100, 5, 1, 7 was read
C3_Witness ==
    \E n \in Records(IsElement) :
       /\ hist[n].raw = <<100, 5, 1, 7>>
       /\ hist[n].verts = <<2, 1, 0, 3>>
       /\ Len(pointIDs) = 101
       /\ cells[hist[n].index + 1].verts = <<2, 1, 0, 3>>

\* C4: a PSOLID/PSHELL record whose property ID an earlier one declared is
\* the last record handled: the run is fatal with DuplicateProperty and no
\* mesh is built; DuplicateProperty is raised by nothing else, so a first
\* declaration is never rejected; every stored name is the one the first
\* declaration of its ID stored.
C4_DuplicateProperty ==
    /\ \A n \in Records(IsProperty) :
          Redeclares(n)
          => /\ n = Len(hist)
             /\ pc = "fatal"
             /\ err = "DuplicateProperty"
             /\ ~mesh.built
    /\ err = "DuplicateProperty"
       => /\ hist # <<>>
          /\ IsProperty(hist[Len(hist)])
          /\ Redeclares(Len(hist))
    /\ \A j \in 1..Len(propNames) :
          \E n \in Records(IsProperty) :
             /\ hist[n].prop = propNames[j].key
             /\ ~Redeclares(n)
             /\ hist[n].name = propNames[j].val

\* C4 witness: the second declaration of property 1 was rejected and the
\* name of the first is still stored
C4_Witness ==
    /\ pc = "fatal"
    /\ err = "DuplicateProperty"
    /\ propNames = <<[key |-> 1, val |-> NameInlet]>>
    /\ hist[Len(hist)].prop = 1
    /\ commentBuffer = NameWall

\* C5: a PSHELL card that owns a face and directly follows a comment line
\* whose last word is w yields a patch named w when naming by comments is
\* enabled; when it is disabled every patch and zone has its synthesized
\* name, patch_0 for the first.
C5_CommentNamesPatch ==
    pc = "done"
    => /\ \A n \in 2..Len(input.cards) : \A w \in Names : \A p \in FacePids :
             /\ input.cards[n].kw = KwPSHELL
             /\ input.cards[n].f[1] = to_string(p)
             /\ input.cards[n - 1] = Named(w)
             /\ ~defaultNames
             => \E k \in 1..Len(patchNames) :
                   /\ Emitted(PatchPrefix)[k].prop = p
                   /\ mesh.patchNames[k] = w
       /\ defaultNames
          => /\ \A k \in 1..Len(mesh.patchNames) :
                   mesh.patchNames[k] = PatchPrefix \o to_string(k - 1)
             /\ \A k \in 1..Len(mesh.zones) :
                   mesh.zones[k].name = CellZonePrefix \o to_string(k - 1)

\* C6: a property ID that a cell or face uses and no PSOLID/PSHELL card
\* declares does not make the run fail: its group is emitted under a
\* synthesized name.
C6_UndeclaredProperty ==
    /\ err # "KeyNotFound"
    /\ pc = "done"
       => /\ \A p \in FacePids :
                \E k \in 1..Len(Emitted(PatchPrefix)) :
                   /\ Emitted(PatchPrefix)[k].prop = p
                   /\ ~found(propNames, p)
                      => patchNames[k] = RuleName(Emitted(PatchPrefix), k,
                                                  PatchPrefix)
          /\ \A p \in CellPids :
                \E k \in 1..Len(Emitted(CellZonePrefix)) :
                   /\ Emitted(CellZonePrefix)[k].prop = p
                   /\ ~found(propNames, p)
                      => cZones[k].name = RuleName(Emitted(CellZonePrefix), k,
                                                   CellZonePrefix)

\* C7: a keyword field read from an ENDDATA card, in any format mode, padded
\* or not, with any line end, is the keyword ENDDATA: the loop stops there
\* and the run is not fatal with UnknownKeyword.
C7_EndDataTerminal ==
    EndDataRead
    => /\ ~(pc = "fatal" /\ err = "UnknownKeyword")
       /\ pc = "loop" /\ is.good => entryBuff = KwENDDATA
       /\ pc # "run"

\* C8: an unknown keyword is fatal with UnknownKeyword, nothing is resolved
\* and no mesh is built; and the resolver is entered only after the keyword
\* ENDDATA was read.
C8_UnknownKeyword ==
    /\ err = "UnknownKeyword"
       => /\ pc = "fatal"
          /\ entryBuff \notin Keywords
          /\ ~mesh.built
          /\ patchNames = <<>> /\ cZones = <<>>
    /\ Resolving => entryBuff = KwENDDATA

\* C9: patches and cell zones are emitted in ascending order of their
\* property IDs, whatever the order the IDs were used or declared in.
C9_AscendingOrder ==
    /\ Ascending(Emitted(PatchPrefix))
    /\ Ascending(Emitted(CellZonePrefix))

\* C10: every emitted patch / cell zone has its stored name, or, when none
\* is stored, the prefix followed by the number of earlier groups of its
\* kind that had none; the two counters count exactly those groups; no
\* empty face group is emitted, and after the resolver every group that
\* owns a face is.
C10_SynthesizedNames ==
    /\ Len(patchNames) = Len(Emitted(PatchPrefix))
    /\ Len(patchFaces) = Len(patchNames)
    /\ \A k \in 1..Len(patchNames) :
          /\ patchNames[k] = RuleName(Emitted(PatchPrefix), k, PatchPrefix)
          /\ patchFaces[k] # <<>>
    /\ unnamedPatchN
          = UnnamedBefore(Emitted(PatchPrefix), Len(patchNames) + 1)
    /\ Len(cZones) = Len(Emitted(CellZonePrefix))
    /\ \A k \in 1..Len(cZones) :
          cZones[k].name = RuleName(Emitted(CellZonePrefix), k, CellZonePrefix)
    /\ unnamedCellZoneN
          = UnnamedBefore(Emitted(CellZonePrefix), Len(cZones) + 1)
    /\ mesh.built
       => {Emitted(PatchPrefix)[k].prop : k \in 1..Len(patchNames)} = FacePids

\* C10 witness: a named patch between two unnamed ones, and two unnamed
\* cell zones counted from 0 again
C10_Witness ==
    /\ pc = "done"
    /\ mesh.patchNames = <<PatchPrefix \o <<"0">>, NameWall,
                           PatchPrefix \o <<"1">>>>
    /\ Len(mesh.zones) = 2
    /\ mesh.zones[1].name = CellZonePrefix \o <<"0">>
    /\ mesh.zones[2].name = CellZonePrefix \o <<"1">>

\* the 0-based offsets from 1 on at which str holds one of the bytes
OffsetsOf(str, bytes) == {k - 1 : k \in {j \in 2..Len(str) : str[j] \in bytes}}

\* str with an e before offset id, unless id is -1 or an e or E is there
Spliced(str, id) ==
    IF id = -1 \/ str[id] \in {"e", "E"} THEN str
    ELSE SubSeq(str, 1, id) \o <<"e">> \o SubSeq(str, id + 1, Len(str))

\* the call at hand is getScalar() and has returned
ScalarRead == call.op = "getScalar" /\ pc # "hang"

\* C11 as stated: the string getScalar hands to readFloat is the field with
\* an e spliced in before the first character from offset 1 on that is '+'
\* or '-', unless there is none or an e or E stands before it.
C11_FirstSignOfEitherKind ==
    ScalarRead
    => call.data
          = Spliced(call.str, First(OffsetsOf(call.str, {"+", "-"}) \cup
                                    (IF OffsetsOf(call.str, {"+", "-"}) = {}
                                     THEN {-1} ELSE {})))

\* C11 amended: the offset looked at is that of the first '+' from offset 1
\* on when the field has one, and otherwise that of the first '-' from
\* offset 1 on; an e is spliced in before it unless there is none or an e or
\* E stands before it, and a sign at offset 0 is never looked at.
C11_ExponentRepair ==
    ScalarRead
    => call.data
          = Spliced(call.str,
                    IF OffsetsOf(call.str, {"+"}) # {}
                    THEN First(OffsetsOf(call.str, {"+"}))
                    ELSE IF OffsetsOf(call.str, {"-"}) # {}
                    THEN First(OffsetsOf(call.str, {"-"}))
                    ELSE -1)

\* C11 witness: a field with a '-' before its first '+' is repaired at the '+'
C11_Witness ==
    /\ ScalarRead
    /\ call.str = <<"1", "-", "+">>
    /\ call.data = <<"1", "-", "e", "+">>


\* the lines of the input after BEGIN BULK that hold a card
CardLines ==
    {i \in 1..Len(input.cards) :
        /\ input.cards[i].kind = "card"
        /\ \E b \in 1..(i - 1) : input.cards[b] = Bulk}

\* the GRID, element and property records dispatched so far
Dispatched == Records(IsGrid) \cup Records(IsElement) \cup Records(IsProperty)

\* C12: every card line between BEGIN BULK and ENDDATA that is not a comment
\* is dispatched exactly once and in file order: whenever the dispatcher
\* holds an entry, after n records, that entry was read from card line
\* n + 1 of the file; the first card after BEGIN BULK is not skipped, nor
\* is the card after a fixed-format record whose last field ended early at
\* the newline.
C12_EveryCardDispatched ==
    pc \in {"loop", "run"}
    => \A i \in CardLines :
          Cardinality({j \in CardLines : j < i}) = Cardinality(Dispatched)
          => entryAt = OffsetOf(i)

\* the record after BEGIN BULK is split over a continuation: its first line
\* ends with the '+' marker field, its second line starts with a '+' or '*'
\* flag field
Split ==
    /\ Len(input.cards) >= 3
    /\ input.cards[2].kind = "card"
    /\ input.cards[2].f # <<>>
    /\ input.cards[2].f[Len(input.cards[2].f)] = Marker
    /\ input.cards[3].kind = "card"
    /\ input.cards[3].kw \in {Marker, Star}

\* the data fields of the split record, those of the record on one line
DataFields ==
    SubSeq(input.cards[2].f, 1, Len(input.cards[2].f) - 1) \o input.cards[3].f

\* C13: a continuation is transparent: the fields read from a record split
\* over a continuation are the data fields of the record, those read from
\* the same record on one line; the '+' marker field and the flag field of
\* the continuation line are not returned as data.
C13_ContinuationTransparent ==
    Split /\ entryAt = OffsetOf(2) /\ pc = "loop"
    => \A k \in 1..Len(got) :
          k <= Len(DataFields) => nonSpace(got[k]) = DataFields[k]

\* the call at hand is getColumn(), alone or in getScalar(), and has returned
ColumnRead == call.op \in {"getColumn", "getScalar"} /\ pc # "hang"

\* C14: the string getColumn returns holds no space, tab, carriage return
\* or newline; a fixed-format field that the newline ended early is
\* returned without the newline.
C14_NoWhiteSpaceReturned ==
    ColumnRead => \A k \in 1..Len(call.str) : call.str[k] \notin {SP, TAB, CR, LF}

\* where the scan of a call from the stream b stops: at the first newline
\* or comma among the 63 bytes from b on (0: none of them is one)
StopOf(b) ==
    First({k \in b.pos..Min(b.pos + BuffSize - 1, Len(file)) :
              file[k] \in {LF, ","}})

\* the bytes of the field between b and position k
FieldBefore(b, k) == SelectSeq(SubSeq(file, b.pos, k - 1),
                               LAMBDA c : c \notin {SP, TAB, CR})

\* the field ending at the newline at k is a marker with a continuation line
\* after it
Continued(b, k) ==
    /\ FieldBefore(b, k) # <<>>
    /\ FieldBefore(b, k)[1] = "+"
    /\ k < Len(file)
    /\ file[k + 1] \in {"+", "*"}

\* the call at hand, in free format, has read a newline that is not part of
\* a continuation
NewlineConsumed ==
    /\ format = FREE
    /\ ColumnRead
    /\ call.before.pb = NoChar
    /\ StopOf(call.before) # 0
    /\ file[StopOf(call.before)] = LF
    /\ ~Continued(call.before, StopOf(call.before))

\* C15: in free format a getColumn that consumes a newline which is not part
\* of a continuation pushes exactly one newline back: when it returns, the
\* next unread byte is that newline and the line number is what it was
\* before the call; a further getColumn on the record returns an empty field
\* and does not move; the finishEntry of the next getEntry consumes exactly
\* that line end.
C15_NewlinePutBack ==
    /\ NewlineConsumed
       => /\ is = [call.before EXCEPT !.pos = StopOf(call.before)]
          /\ call.str = FieldBefore(call.before, StopOf(call.before))
    /\ NewlineConsumed /\ file[call.before.pos] = LF
       => call.str = <<>> /\ is = call.before
    /\ format = FREE /\ call.op = "getEntry" /\ call.before.pb = NoChar
          /\ call.before.pos <= Len(file) /\ file[call.before.pos] = LF
       => finishEntry(call.before)
             = [call.before EXCEPT !.pos = @ + 1, !.line = @ + 1]

\* C15 witness: the call that read the sixth and last field of a record has
\* pushed the newline back, and the call after it has read that newline,
\* returned an empty field and left the stream where it was
C15_Witness ==
    /\ NewlineConsumed
    /\ Len(got) = 7
    /\ got[6] = to_string(14)
    /\ got[7] = <<>>
    /\ is = call.before
    /\ file[is.pos] = LF

\* the card line in which the stream position p lies, or which ends at p
CardAt(p) == Last({i \in 1..Len(input.cards) : OffsetOf(i) < p})

\* the bytes of card line i
TextOf(i) == LineOf(input.cards[i], format, input.style.pad)

\* line i is a comment that holds a space and ends in the word w
NamesIt(i, w) ==
    /\ i >= 1
    /\ input.cards[i].kind = "comment"
    /\ LastSpace(TextOf(i)) > 0
    /\ w = Drop(TextOf(i), LastSpace(TextOf(i)))

\* C16: a name taken from a comment is attached to a PSOLID/PSHELL only if
\* the last recorded comment line is the line immediately before the
\* property card; a stale comment (a card line in between, or an older
\* comment left in the buffer by a later comment without a space) is never
\* attached, and the property is then stored unnamed.
C16_OnlyAdjacentComment ==
    \A n \in Records(IsProperty) :
       hist[n].name # <<>>
       => /\ ~defaultNames
          /\ NamesIt(CardAt(hist[n].at) - 1, RemoveCR(hist[n].name))

\* C16 witness: both properties of the file of stale comments are stored
\* unnamed although a comment's word is in the buffer
C16_Witness ==
    /\ input.cards = StaleComments
    /\ ~defaultNames
    /\ pc = "done"
    /\ commentBuffer # <<>>
    /\ Cardinality(Records(IsProperty)) = 2
    /\ \A n \in Records(IsProperty) : hist[n].name = <<>>

\* the places <<group, position>> of the items of the groups of a map
Slots(m) == UNION {{<<j, k>> : k \in 1..Len(m[j].val)} : j \in 1..Len(m)}

\* the places at which cell index c stands in the cell groups
CellSlots(c) == {x \in Slots(cellPropIDs) : cellPropIDs[x[1]].val[x[2]] = c}

\* the record of the cell with index c
CellRecord(c) ==
    CHOOSE n \in Records(IsElement) :
       hist[n].kw \in CellKinds /\ hist[n].index = c

\* the faces read with property ID p, in the order they were read
FacesRead(p) ==
    [n \in 1..Len(SelectSeq(hist, LAMBDA h : h.kw \in FaceKinds /\ h.prop = p))
        |-> SelectSeq(hist, LAMBDA h : h.kw \in FaceKinds /\ h.prop = p)[n].verts]

\* the patches emitted for property ID p
PatchesOf(p) ==
    {k \in 1..Len(Emitted(PatchPrefix)) : Emitted(PatchPrefix)[k].prop = p}

\* the faces now held for property ID p: in its face group, or in the patch
\* the resolver moved the group to
FacesHeld(p) ==
    (IF found(patches, p) THEN at(patches, p) ELSE <<>>)
        \o (IF PatchesOf(p) = {} THEN <<>> ELSE patchFaces[First(PatchesOf(p))])

\* the places <<zone, position>> at which cell index c stands in the zones
ZoneSlots(c) ==
    {x \in UNION {{<<j, k>> : k \in 1..Len(cZones[j].cells)} :
                     j \in 1..Len(cZones)} :
        cZones[x[1]].cells[x[2]] = c}

\* C17: the groups partition what was read.  Every cell index 0..|cells|-1
\* stands in exactly one cell group, that of the property ID read with the
\* cell, and each group is strictly increasing; every face read is held
\* exactly once, in the group of its property ID, which is either the face
\* group or, once moved, the one patch made of it; after the resolver the
\* cell lists of the zones are disjoint and cover all cells, and the patches
\* hold every face read exactly once.
C17_GroupsPartition ==
    /\ \A c \in 0..(Len(cells) - 1) :
          /\ Cardinality(CellSlots(c)) = 1
          /\ \A x \in CellSlots(c) :
                cellPropIDs[x[1]].key = hist[CellRecord(c)].prop
    /\ \A j \in 1..Len(cellPropIDs) :
          /\ \A k, l \in 1..Len(cellPropIDs[j].val) :
                k < l => cellPropIDs[j].val[k] < cellPropIDs[j].val[l]
          /\ \A l \in 1..Len(cellPropIDs) :
                cellPropIDs[l].key = cellPropIDs[j].key => l = j
    /\ \A j \in 1..Len(patches) :
          /\ patches[j].key \in FacePids
          /\ \A l \in 1..Len(patches) :
                patches[l].key = patches[j].key => l = j
    /\ \A q \in FacePids :
          /\ FacesHeld(q) = FacesRead(q)
          /\ Cardinality(PatchesOf(q)) <= 1
    /\ Len(patchFaces) = Len(Emitted(PatchPrefix))
    /\ pc \in {"write", "done"}
       => /\ \A c \in 0..(Len(cells) - 1) : Cardinality(ZoneSlots(c)) = 1
          /\ \A j \in 1..Len(cZones) : \A k \in 1..Len(cZones[j].cells) :
                cZones[j].cells[k] \in 0..(Len(cells) - 1)
          /\ \A q \in FacePids :
                /\ Cardinality(PatchesOf(q)) = 1
                /\ mesh.patchFaces[First(PatchesOf(q))] = FacesRead(q)
          /\ {Emitted(PatchPrefix)[k].prop : k \in 1..Len(patchFaces)}
                = FacePids

\* C17 witness: a finished run with two cell zones of one and two cells and
\* two patches of one face each
C17_Witness ==
    /\ pc = "done"
    /\ Len(cells) = 3
    /\ Len(cZones) = 2
    /\ \E j \in 1..2 : Len(cZones[j].cells) = 2
    /\ Len(mesh.patchFaces) = 2
    /\ Cardinality(Records(IsElement)) = 5

\* C18: every read and write of the 63-byte field buffer of getColumn uses
\* an index in 0..62: the closing NUL of a 63-character free-format field is
\* written inside the buffer, and buff[i-1] is not evaluated with i = 0.
C18_BufferInBounds == call.op # "none" => ~call.oob

\* C19: for every finite input file the run stops, with the mesh written or
\* with a fatal error: every loop of the tokenizer, of the readers and of
\* main() ends, so the run is never in a loop whose pass changes nothing
\* and whose condition stays true (pc = "hang", left by no step but Spin).
C19_EveryLoopEnds == pc # "hang"

=============================================================================
